---- MODULE Spec2Model ----
(***************************************************************************)
(* Model of src/SCP/pylontech_com.py: class US2000B, the serial console    *)
(* driver of the Pylontech US2000B Plus battery management system.         *)
(*                                                                         *)
(* Byte strings (Python 2 str) are sequences of integers 0..255.  A        *)
(* serial.Serial object is a record [baud, is_open]; self.__port is the    *)
(* int 0 until open() binds it.  The device and the serial line are the    *)
(* environment: each command the driver writes on an open handle is        *)
(* answered by a reply drawn from a bounded set, delivered in an early     *)
(* part (in the receive buffer when the driver reads) and a late part      *)
(* (arriving after the 50 ms read timeout has expired).                    *)
(***************************************************************************)
EXTENDS Integers, Sequences, FiniteSets, TLC

VARIABLES
    port,         \* self.__port: Zero (the int 0), or the Serial object bound by open()
    temp_port,    \* initialise's local temp_port: Zero when unbound
    fresh,        \* Serial object just constructed by line 51, not yet bound
    rx,           \* bytes the device has sent that no read has consumed yet
    initialised,  \* history: the most recent initialise() returned True
    pc,           \* position of the single caller thread
    call,         \* the public operation in progress or just returned
    ops,          \* transport events performed by that operation, in order
    rec_str,      \* bytes returned by that operation's read()
    rec_int,      \* rec_int of read_SOC/read_BMS: the digit runs of rec_str
    result        \* what the operation handed back to its caller

vars == <<port, temp_port, fresh, rx, initialised, pc, call, ops, rec_str, rec_int, result>>

(***************************************************************************)
(* Program constants                                                       *)
(***************************************************************************)
LowBaud == 1200
OperatingBaud == 115200
WakeSettleMs == 5000
ReportSettleMs == 500
ProbeBudget == 1000
ReportBudget == 2200

\* '~20014682C0048520FCC3\r'
WakeFrame ==
    <<126, 50, 48, 48, 49, 52, 54, 56, 50, 67, 48, 48, 52, 56, 53, 50, 48, 70, 67, 67, 51, 13>>
\* '\r\n'
Probe == <<13, 10>>
\* 'pwr\r'
Pwr == <<112, 119, 114, 13>>
\* the characters of the literal str("'\\n\\rpylon>\\n\\rpylon>")
ExpectedRepr ==
    <<39, 92, 110, 92, 114, 112, 121, 108, 111, 110, 62,
      92, 110, 92, 114, 112, 121, 108, 111, 110, 62, 39>>

(***************************************************************************)
(* Bounds of the model                                                     *)
(***************************************************************************)
NegModules == 1      \* n_modules is drawn from -NegModules .. MaxModules
MaxModules == 9
MaxSeed == 1         \* device replies carry token values k + 100 * seed
ExtraTokens == 4     \* the longest reply holds 114 + ExtraTokens tokens
SplitAt == 22        \* a reply delivered in two parts is cut after SplitAt bytes
Overrun == 300       \* the longest prompt reply is ProbeBudget + Overrun bytes
MaxPending == 460    \* no reply is drawn that would leave more unread bytes than this

Modules == (0 - NegModules)..MaxModules
Bauds == {OperatingBaud, LowBaud}

(***************************************************************************)
(* Byte-string helpers                                                     *)
(***************************************************************************)
Min(a, b) == IF a < b THEN a ELSE b
Take(s, n) == SubSeq(s, 1, Min(n, Len(s)))
Drop(s, n) == SubSeq(s, Min(n, Len(s)) + 1, Len(s))

IsDigit(b) == b >= 48 /\ b <= 57

\* lower-case hexadecimal digit, as printed by the \x%02x of repr
HexDigit(d) == IF d < 10 THEN 48 + d ELSE 87 + d

(***************************************************************************)
(* repr() of a Python 2 str.  The quote is ' unless the string holds a '   *)
(* and no "; the quote and the backslash are escaped with a backslash,     *)
(* \t \n \r are written as two characters, other bytes below space or      *)
(* from 0x7f up as \xhh, everything else as itself.                        *)
(***************************************************************************)
ReprQuote(s) ==
    IF (\E i \in DOMAIN s : s[i] = 39) /\ ~(\E i \in DOMAIN s : s[i] = 34) THEN 34 ELSE 39

ReprByte(c, quote) ==
    IF c = quote \/ c = 92 THEN <<92, c>>
    ELSE IF c = 9 THEN <<92, 116>>
    ELSE IF c = 10 THEN <<92, 110>>
    ELSE IF c = 13 THEN <<92, 114>>
    ELSE IF c < 32 \/ c >= 127 THEN <<92, 120, HexDigit(c \div 16), HexDigit(c % 16)>>
    ELSE <<c>>

\* the escaped bytes of s[lo..hi], left to right (halving keeps the nesting shallow)
RECURSIVE ReprBody(_, _, _, _)
ReprBody(s, lo, hi, quote) ==
    IF lo > hi THEN <<>>
    ELSE IF lo = hi THEN ReprByte(s[lo], quote)
    ELSE LET mid == (lo + hi) \div 2
         IN ReprBody(s, lo, mid, quote) \o ReprBody(s, mid + 1, hi, quote)

repr(s) ==
    LET quote == ReprQuote(s)
    IN <<quote>> \o ReprBody(s, 1, Len(s), quote) \o <<quote>>

(***************************************************************************)
(* re.findall(r'\d+', s): the maximal runs of decimal digits of s, left to *)
(* right.  The runs of s[lo..hi] are those of the two halves, the last run *)
(* of the left half and the first of the right half being one run when     *)
(* digits meet at the cut.                                                 *)
(***************************************************************************)
JoinRuns(a, b, glue) ==
    IF a = <<>> \/ b = <<>> \/ ~glue THEN a \o b
    ELSE SubSeq(a, 1, Len(a) - 1) \o <<a[Len(a)] \o b[1]>> \o SubSeq(b, 2, Len(b))

RECURSIVE DigitRuns(_, _, _)
DigitRuns(s, lo, hi) ==
    IF lo > hi THEN <<>>
    ELSE IF lo = hi THEN (IF IsDigit(s[lo]) THEN << <<s[lo]>> >> ELSE <<>>)
    ELSE LET mid == (lo + hi) \div 2
         IN JoinRuns(DigitRuns(s, lo, mid), DigitRuns(s, mid + 1, hi),
                     IsDigit(s[mid]) /\ IsDigit(s[mid + 1]))

findall(s) == DigitRuns(s, 1, Len(s))

\* numpy's conversion of a digit string stored into a float64 array: its decimal value
RECURSIVE ToFloat(_)
ToFloat(tok) ==
    IF tok = <<>> THEN 0
    ELSE 10 * ToFloat(SubSeq(tok, 1, Len(tok) - 1)) + (tok[Len(tok)] - 48)

\* np.zeros((n, cols)) for n >= 0
Zeros(n, cols) == [i \in 1..n |-> [c \in 1..cols |-> 0]]

(***************************************************************************)
(* What an operation hands back to its caller                              *)
(***************************************************************************)
NoRows == <<>>
Pending == [kind |-> "pending", b |-> FALSE, rows |-> NoRows, exc |-> ""]
RetBool(v) == [kind |-> "bool", b |-> v, rows |-> NoRows, exc |-> ""]
RetArray(rows) == [kind |-> "array", b |-> FALSE, rows |-> rows, exc |-> ""]
\* the bare except prints the diagnostic and the function falls off its end: None
RetNone(swallowed) == [kind |-> "None", b |-> FALSE, rows |-> NoRows, exc |-> swallowed]
\* an exception that leaves the method
Raise(e) == [kind |-> "raise", b |-> FALSE, rows |-> NoRows, exc |-> e]

NoCall == [op |-> "", n |-> 0]

(***************************************************************************)
(* serial.Serial and the transport events an operation performs            *)
(***************************************************************************)
\* the int 0 that __init__ stores in self.__port: it has neither write nor close
Zero == [obj |-> "int", baud |-> 0, is_open |-> FALSE]
Serial(baud) == [obj |-> "Serial", baud |-> baud, is_open |-> TRUE]
Closed(h) == [h EXCEPT !.is_open = FALSE]

EvOpen(baud) == [op |-> "open", data |-> <<>>, num |-> baud]
EvWrite(bytes, baud) == [op |-> "write", data |-> bytes, num |-> baud]
EvSleep(ms) == [op |-> "sleep", data |-> <<>>, num |-> ms]
EvRead(size) == [op |-> "read", data |-> <<>>, num |-> size]
EvClose(baud) == [op |-> "close", data |-> <<>>, num |-> baud]
\* a Serial object that lost its last reference is closed by its finalizer
EvFinalize(baud) == [op |-> "finalize", data |-> <<>>, num |-> baud]

(***************************************************************************)
(* The device (environment).  A reply is [early, late]: early is in the    *)
(* receive buffer when the driver's read() runs, late arrives after that   *)
(* read has timed out and stays in the buffer for the next read.           *)
(***************************************************************************)
Reply(early, late) == [early |-> early, late |-> late]
Silence == Reply(<<>>, <<>>)

\* "\n\rpylon>\n\rpylon>": the console's answer to a bare line terminator
Prompt == <<10, 13, 112, 121, 108, 111, 110, 62, 10, 13, 112, 121, 108, 111, 110, 62>>
\* the same text spelled with backslash, n, backslash, r instead of LF and CR
PromptSpelled ==
    <<92, 110, 92, 114, 112, 121, 108, 111, 110, 62,
      92, 110, 92, 114, 112, 121, 108, 111, 110, 62>>
\* the prompt followed by dots up to ProbeBudget + Overrun bytes
PromptFlood == [i \in 1..(ProbeBudget + Overrun) |-> IF i <= Len(Prompt) THEN Prompt[i] ELSE 46]

ProbeReplies ==
    { Reply(Prompt, <<>>),
      Silence,
      Reply(Take(Prompt, 8), Drop(Prompt, 8)),
      Reply(Prompt \o <<10, 13>>, <<>>),
      Reply(Probe \o Prompt, <<>>),
      Reply(PromptSpelled, <<>>),
      Reply(ExpectedRepr, <<>>),
      Reply(PromptFlood, <<>>) }

\* decimal digit j (0 = hundreds) of v, as a byte
Digit3(v, j) == 48 + ((v \div (IF j = 0 THEN 100 ELSE IF j = 1 THEN 10 ELSE 1)) % 10)

\* the echo of the command, then L tokens of three digits and a blank each;
\* token k (from 0) spells k + 100 * seed
PwrText(L, seed) ==
    [i \in 1..(4 + 4 * L) |->
        IF i <= 4 THEN Pwr[i]
        ELSE IF (i - 5) % 4 = 3 THEN 32
        ELSE Digit3(((i - 5) \div 4) + 100 * seed, (i - 5) % 4)]

\* "0 1 2 3 4 5 6 7 100 9 10 11 12 13 14 15 16 17"
ExampleText ==
    <<48, 32, 49, 32, 50, 32, 51, 32, 52, 32, 53, 32, 54, 32, 55, 32, 49, 48, 48, 32,
      57, 32, 49, 48, 32, 49, 49, 32, 49, 50, 32, 49, 51, 32, 49, 52, 32, 49, 53, 32,
      49, 54, 32, 49, 55>>

\* one token short of, and exactly, what each module count 1..8 indexes; none; a surplus
TokenCounts ==
    {0} \cup {15 * (m - 1) + 8 : m \in 1..8} \cup {15 * (m - 1) + 9 : m \in 1..8}
        \cup {114 + ExtraTokens}

PwrReplies ==
    { Reply(PwrText(L, seed), <<>>) : L \in TokenCounts, seed \in 0..MaxSeed }
        \cup { Reply(ExampleText, <<>>),
               Reply(Take(PwrText(114 + ExtraTokens, 0), SplitAt),
                     Drop(PwrText(114 + ExtraTokens, 0), SplitAt)) }

\* pyserial read(size) after reply r has been sent: what it returns, what stays unread
Heard(r, size) == Take(rx \o r.early, size)
Unread(r, size) == Drop(rx \o r.early, size) \o r.late
Admissible(r, size) == Len(Unread(r, size)) <= MaxPending

Init ==
    /\ port = Zero
    /\ temp_port = Zero
    /\ fresh = Zero
    /\ rx = <<>>
    /\ initialised = FALSE
    /\ pc = "idle"
    /\ call = NoCall
    /\ ops = <<>>
    /\ rec_str = <<>>
    /\ rec_int = <<>>
    /\ result = Pending

\* the caller takes the returned value (or the exception); the frame is gone
Return ==
    /\ pc = "returned"
    /\ pc' = "idle"
    /\ call' = NoCall
    /\ ops' = <<>>
    /\ rec_str' = <<>>
    /\ rec_int' = <<>>
    /\ result' = Pending
    /\ UNCHANGED <<port, temp_port, fresh, rx, initialised>>

\* open(port, baud): lines 57-68
open ==
    /\ pc = "idle"
    /\ \E baud \in Bauds :
         /\ port' = Serial(baud)
         /\ ops' = <<EvOpen(baud)>> \o (IF port = Zero THEN <<>> ELSE <<EvFinalize(port.baud)>>)
         /\ call' = [op |-> "open", n |-> 0]
    /\ result' = RetBool(port'.is_open)
    /\ pc' = "returned"
    /\ rec_str' = <<>>
    /\ rec_int' = <<>>
    /\ UNCHANGED <<temp_port, fresh, rx, initialised>>

\* close(): lines 70-77
close ==
    /\ pc = "idle"
    /\ call' = [op |-> "close", n |-> 0]
    /\ IF port = Zero
       THEN /\ result' = Raise("AttributeError")
            /\ ops' = <<>>
            /\ port' = port
       ELSE /\ port' = Closed(port)
            /\ ops' = <<EvClose(port.baud)>>
            /\ result' = RetBool(~port'.is_open)
    /\ pc' = "returned"
    /\ rec_str' = <<>>
    /\ rec_int' = <<>>
    /\ UNCHANGED <<temp_port, fresh, rx, initialised>>

\* a slip of the comparison: the received text only has to start like the prompt
IsPrompt_startswith(temp_receive) ==
    Take(repr(temp_receive), Len(ExpectedRepr) - 1) = Take(ExpectedRepr, Len(ExpectedRepr) - 1)

\* the comparison of lines 55 and 88
IsPrompt(temp_receive) == repr(temp_receive) = ExpectedRepr

\* a slip of is_connected: a failed check closes the session's handle
is_connected_closes ==
    /\ pc = "idle"
    /\ call' = [op |-> "is_connected", n |-> 0]
    /\ port # Zero
    /\ port.is_open
    /\ \E r \in ProbeReplies :
         /\ Admissible(r, ProbeBudget)
         /\ ops' = <<EvWrite(Probe, port.baud), EvRead(ProbeBudget)>>
         /\ rec_str' = Heard(r, ProbeBudget)
         /\ rx' = Unread(r, ProbeBudget)
         /\ result' = RetBool(IsPrompt(rec_str'))
    /\ port' = IF result'.b THEN port ELSE Closed(port)
    /\ pc' = "returned"
    /\ rec_int' = <<>>
    /\ UNCHANGED <<temp_port, fresh, initialised>>

\* is_connected(): lines 79-88
is_connected ==
    /\ pc = "idle"
    /\ call' = [op |-> "is_connected", n |-> 0]
    /\ IF port = Zero
       THEN /\ result' = Raise("AttributeError")
            /\ UNCHANGED <<rx, rec_str, ops>>
       ELSE IF ~port.is_open
       THEN /\ result' = Raise("portNotOpenError")
            /\ UNCHANGED <<rx, rec_str, ops>>
       ELSE \E r \in ProbeReplies :
            /\ Admissible(r, ProbeBudget)
            /\ ops' = <<EvWrite(Probe, port.baud), EvRead(ProbeBudget)>>
            /\ rec_str' = Heard(r, ProbeBudget)
            /\ rx' = Unread(r, ProbeBudget)
            /\ result' = RetBool(IsPrompt(rec_str'))
    /\ pc' = "returned"
    /\ rec_int' = <<>>
    /\ UNCHANGED <<port, temp_port, fresh, initialised>>

(***************************************************************************)
(* The indices into rec_int that the unrolled branches of read_SOC and     *)
(* read_BMS use (Python indices, from 0).  The branch for n modules        *)
(* assigns rows 0..n-1, and every branch uses the same literals for a row. *)
(***************************************************************************)
\* a slip in one unrolled branch: row 6 reads the temperature token of that module
SOC_index_slip == <<8, 23, 38, 53, 68, 83, 93, 113>>

SOC_index == <<8, 23, 38, 53, 68, 83, 98, 113>>

\* a slip in one unrolled branch: row 3 reads the current token as its temperature
BMS_index_slip ==
    << <<8, 1, 2, 3>>,
       <<23, 16, 17, 18>>,
       <<38, 31, 32, 33>>,
       <<53, 46, 47, 47>>,
       <<68, 61, 62, 63>>,
       <<83, 76, 77, 78>>,
       <<98, 91, 92, 93>>,
       <<113, 106, 107, 108>> >>

\* per row: SOC, Voltage, Current, Temperature
BMS_index ==
    << <<8, 1, 2, 3>>,
       <<23, 16, 17, 18>>,
       <<38, 31, 32, 33>>,
       <<53, 46, 47, 48>>,
       <<68, 61, 62, 63>>,
       <<83, 76, 77, 78>>,
       <<98, 91, 92, 93>>,
       <<113, 106, 107, 108>> >>

\* read_SOC, lines 106-160, once rec_int is known
SOC_decode(n, toks) ==
    IF n \in 1..Len(SOC_index)
    THEN IF \E i \in 1..n : SOC_index[i] >= Len(toks)
         THEN RetNone("IndexError")
         ELSE RetArray([i \in 1..n |-> <<ToFloat(toks[SOC_index[i] + 1])>>])
    ELSE RetArray(Zeros(n, 1))

\* read_BMS, lines 180-378, once rec_int is known
BMS_decode(n, toks) ==
    IF n \in 1..Len(BMS_index)
    THEN IF \E i \in 1..n : \E c \in 1..4 : BMS_index[i][c] >= Len(toks)
         THEN RetNone("IndexError")
         ELSE RetArray([i \in 1..n |-> [c \in 1..4 |-> ToFloat(toks[BMS_index[i][c] + 1])]])
    ELSE RetArray(Zeros(n, 4))

\* lines 101-105 and 175-179, then the decoding; decode is SOC_decode or BMS_decode
Report(name, n, r, toks, decoded) ==
    /\ call' = [op |-> name, n |-> n]
    /\ IF n < 0
       THEN \* np.zeros raises ValueError before anything is written
            /\ result' = RetNone("ValueError")
            /\ ops' = <<>> /\ rec_str' = <<>> /\ rec_int' = <<>>
            /\ UNCHANGED rx
       ELSE IF port = Zero
       THEN /\ result' = RetNone("AttributeError")
            /\ ops' = <<>> /\ rec_str' = <<>> /\ rec_int' = <<>>
            /\ UNCHANGED rx
       ELSE IF ~port.is_open
       THEN /\ result' = RetNone("portNotOpenError")
            /\ ops' = <<>> /\ rec_str' = <<>> /\ rec_int' = <<>>
            /\ UNCHANGED rx
       ELSE /\ Admissible(r, ReportBudget)
            /\ ops' = <<EvWrite(Pwr, port.baud), EvSleep(ReportSettleMs), EvRead(ReportBudget)>>
            /\ rec_str' = Heard(r, ReportBudget)
            /\ rx' = Unread(r, ReportBudget)
            /\ rec_int' = toks
            /\ result' = decoded
    /\ pc' = "returned"
    /\ UNCHANGED <<port, temp_port, fresh, initialised>>

\* read_SOC(n_modules): lines 91-162
read_SOC ==
    /\ pc = "idle"
    /\ \E r \in PwrReplies :
         LET toks == findall(Heard(r, ReportBudget))
         IN \E n \in Modules : Report("read_SOC", n, r, toks, SOC_decode(n, toks))

\* read_BMS(n_modules): lines 164-380
read_BMS ==
    /\ pc = "idle"
    /\ \E r \in PwrReplies :
         LET toks == findall(Heard(r, ReportBudget))
         IN \E n \in Modules : Report("read_BMS", n, r, toks, BMS_decode(n, toks))

\* initialise(port), lines 48-50: open at the low rate, wake-up frame, settle
initialise_48_50 ==
    /\ pc = "idle"
    /\ call' = [op |-> "initialise", n |-> 0]
    /\ temp_port' = Serial(LowBaud)
    /\ ops' = <<EvOpen(LowBaud), EvWrite(WakeFrame, LowBaud), EvSleep(WakeSettleMs)>>
    /\ pc' = "L51"
    /\ UNCHANGED <<port, fresh, rx, initialised, rec_str, rec_int, result>>

\* line 51, right-hand side: the constructor opens the port at the operating rate
\* while temp_port still refers to the open low-rate object
initialise_51 ==
    /\ pc = "L51"
    /\ fresh' = Serial(OperatingBaud)
    /\ ops' = Append(ops, EvOpen(OperatingBaud))
    /\ pc' = "L51_bind"
    /\ UNCHANGED <<port, temp_port, rx, initialised, call, rec_str, rec_int, result>>

\* a slip of the handshake: a prompt that does not match is probed a second time
initialise_52_55_retry ==
    /\ pc = "L51_bind"
    /\ \E r \in ProbeReplies :
         /\ Admissible(r, ProbeBudget)
         /\ ops' = ops \o <<EvFinalize(temp_port.baud), EvWrite(Probe, fresh.baud),
                            EvRead(ProbeBudget)>>
                       \o (IF IsPrompt(Heard(r, ProbeBudget)) THEN <<>>
                           ELSE <<EvWrite(Probe, fresh.baud), EvRead(ProbeBudget)>>)
                       \o <<EvClose(fresh.baud)>>
         /\ rec_str' = Heard(r, ProbeBudget)
         /\ rx' = Unread(r, ProbeBudget)
    /\ result' = RetBool(IsPrompt(rec_str'))
    /\ initialised' = result'.b
    /\ temp_port' = Zero
    /\ fresh' = Zero
    /\ pc' = "returned"
    /\ UNCHANGED <<port, call, rec_int>>

\* line 51, the binding (the low-rate object loses its last reference), lines 52-55
initialise_52_55 ==
    /\ pc = "L51_bind"
    /\ \E r \in ProbeReplies :
         /\ Admissible(r, ProbeBudget)
         /\ ops' = ops \o <<EvFinalize(temp_port.baud), EvWrite(Probe, fresh.baud),
                            EvRead(ProbeBudget), EvClose(fresh.baud)>>
         /\ rec_str' = Heard(r, ProbeBudget)
         /\ rx' = Unread(r, ProbeBudget)
    /\ result' = RetBool(IsPrompt(rec_str'))
    /\ initialised' = result'.b
    /\ temp_port' = Zero
    /\ fresh' = Zero
    /\ pc' = "returned"
    /\ UNCHANGED <<port, call, rec_int>>

\* __del__: lines 35-38
__del__ ==
    /\ pc = "idle"
    /\ call' = [op |-> "__del__", n |-> 0]
    /\ port' = IF port # Zero THEN Closed(port) ELSE port
    /\ ops' = IF port # Zero THEN <<EvClose(port.baud)>> ELSE <<>>
    /\ pc' = "dead"
    /\ UNCHANGED <<temp_port, fresh, rx, initialised, rec_str, rec_int, result>>

Next ==
    \/ initialise_48_50
    \/ initialise_51
    \/ initialise_52_55
    \/ open
    \/ close
    \/ is_connected
    \/ read_SOC
    \/ read_BMS
    \/ __del__
    \/ Return

Spec == Init /\ [][Next]_vars

(***************************************************************************)
(* Properties                                                              *)
(***************************************************************************)
Returned == pc = "returned"
Reports == {"read_SOC", "read_BMS"}
HasRead == \E k \in DOMAIN ops : ops[k].op = "read"
WritesPwr == \E k \in DOMAIN ops : ops[k].op = "write" /\ ops[k].data = Pwr
\* tokens needed to decode n modules
Need(n) == 15 * (n - 1) + 9
\* the integer a token spells, read from the left
RECURSIVE Spelled(_, _, _)
Spelled(tok, k, acc) ==
    IF k > Len(tok) THEN acc ELSE Spelled(tok, k + 1, 10 * acc + (tok[k] - 48))
TokenValue(tok) == Spelled(tok, 1, 0)
\* the record of module i (from 0) by the stride rule: SOC, voltage, current, temperature
StrideRecord(toks, i) ==
    <<TokenValue(toks[15 * i + 8 + 1]), TokenValue(toks[15 * i + 1 + 1]),
      TokenValue(toks[15 * i + 2 + 1]), TokenValue(toks[15 * i + 3 + 1])>>
\* an error value the caller receives
ExplicitError(res) == res.kind = "raise"
\* the connection state of the specification: the handshake succeeded and the
\* session's handle is open
Ready == initialised /\ port # Zero /\ port.is_open
OpenHandles ==
    (IF port.is_open THEN 1 ELSE 0) + (IF temp_port.is_open THEN 1 ELSE 0)
        + (IF fresh.is_open THEN 1 ELSE 0)

\* C1: for n in 1..8 and at least 15*(n-1)+9 tokens in the reply, read_BMS(n)
\* returns exactly n records, record i holding the tokens at 15*i+8, 15*i+1,
\* 15*i+2 and 15*i+3.
C1_StrideDecode ==
    (Returned /\ call.op = "read_BMS" /\ HasRead /\ call.n \in 1..8
        /\ Len(rec_int) >= Need(call.n))
    => /\ result.kind = "array"
       /\ Len(result.rows) = call.n
       /\ \A i \in 0..(call.n - 1) : result.rows[i + 1] = StrideRecord(rec_int, i)

\* read_BMS(8) has decoded a reply of exactly 114 tokens
C1_Witness ==
    /\ Returned /\ call.op = "read_BMS" /\ call.n = 8 /\ HasRead
    /\ Len(rec_int) = Need(8)
    /\ result.kind = "array"

\* C2: a report request for a module count outside 1..8 ends in an explicit
\* error and never returns an array, whatever the device replied.
C2_OutOfRangeRejected ==
    (Returned /\ call.op \in Reports /\ HasRead /\ call.n \notin 1..8)
    => ExplicitError(result)

\* C3: for n in 1..8 and fewer than 15*(n-1)+9 tokens in the reply, the report
\* request fails with an explicit error value that the caller receives, never
\* with None.
C3_ShortReplyRejected ==
    (Returned /\ call.op \in Reports /\ HasRead /\ call.n \in 1..8
        /\ Len(rec_int) < Need(call.n))
    => ExplicitError(result)

\* C4: initialise and is_connected return True exactly when the bytes of their
\* single read equal the two-prompt pattern.
C4_PromptExact ==
    (Returned /\ call.op \in {"initialise", "is_connected"} /\ HasRead)
    => /\ result.kind = "bool"
       /\ result.b = (rec_str = Prompt)

\* is_connected has read the prompt followed by two more bytes and returned False
C4_Witness ==
    /\ Returned /\ call.op = "is_connected" /\ HasRead
    /\ rec_str = Prompt \o <<10, 13>>
    /\ result = RetBool(FALSE)

\* C5: a report request made while the connection is not Ready writes no
\* 'pwr\r' and returns a NotConnectedError.
C5_NotReadyRejected ==
    (Returned /\ call.op \in Reports /\ call.n \in 1..8 /\ ~Ready)
    => /\ ~WritesPwr
       /\ result = Raise("NotConnectedError")

\* C6: within initialise the low-rate handle is closed before the operating-rate
\* handle is opened; at most one transport handle is open in any state.
C6_OneHandleOpen ==
    /\ fresh.is_open => ~temp_port.is_open
    /\ OpenHandles <= 1

\* C7: when the first read returned a prefix holding too few tokens and the rest
\* of the reply is available to the next read, the request accumulates the bytes
\* (up to 2200) and returns the report decoded from the whole reply.
C7_ReadsUntilComplete ==
    (Returned /\ call.op = "read_BMS" /\ HasRead /\ call.n \in 1..8 /\ rx # <<>>
        /\ Len(rec_int) < Need(call.n)
        /\ Len(findall(Take(rec_str \o rx, ReportBudget))) >= Need(call.n))
    => /\ result.kind = "array"
       /\ result.rows = [i \in 1..call.n |->
              StrideRecord(findall(Take(rec_str \o rx, ReportBudget)), i - 1)]

\* C8: is_connected writes only the probe and reads once on the session's
\* handle; it neither closes nor reopens it, and leaves handle and connection
\* state as they were whether the check succeeds or fails.
C8_IsConnectedFrame ==
    [][(pc = "idle" /\ call'.op = "is_connected")
        => /\ port' = port /\ temp_port' = temp_port /\ fresh' = fresh
           /\ initialised' = initialised
           /\ \/ ops' = <<>> /\ result'.kind = "raise"
              \/ ops' = <<EvWrite(Probe, port.baud), EvRead(ProbeBudget)>>
                   /\ result'.kind = "bool"]_vars

\* is_connected has probed an open session and returned False
C8_Witness ==
    /\ Returned /\ call.op = "is_connected" /\ HasRead
    /\ result = RetBool(FALSE)
    /\ port.is_open

\* the handshake steps the claim lists, as transport events
IsHandshakeStep(e) ==
    e.op \in {"write", "sleep", "read"} \/ (e.op = "open" /\ e.num = OperatingBaud)
HandshakeSteps ==
    <<EvWrite(WakeFrame, LowBaud), EvSleep(WakeSettleMs), EvOpen(OperatingBaud),
      EvWrite(Probe, OperatingBaud), EvRead(ProbeBudget)>>

\* C9: one initialise call writes the wake-up frame at the low rate, waits,
\* opens at the operating rate, writes the probe and reads once (at most 1000
\* bytes), each exactly once and in this order, also when the comparison fails.
C9_HandshakeOnce ==
    call.op = "initialise"
    => LET done == SelectSeq(ops, IsHandshakeStep)
       IN /\ Len(done) <= Len(HandshakeSteps)
          /\ done = SubSeq(HandshakeSteps, 1, Len(done))
          /\ Returned => /\ done = HandshakeSteps
                         /\ result.kind = "bool"
                         /\ Len(rec_str) <= ProbeBudget

\* initialise has returned False after a read that filled the 1000-byte budget
C9_Witness ==
    /\ Returned /\ call.op = "initialise"
    /\ result = RetBool(FALSE)
    /\ Len(rec_str) = ProbeBudget

\* C10: on the same reply read_SOC(n) returns a result exactly when read_BMS(n)
\* does, and then row i of read_SOC is column 0 of row i of read_BMS.
C10_SOCAgreesWithBMS ==
    (Returned /\ call.op \in Reports)
    => IF ~HasRead THEN result.kind = "None"
       ELSE LET soc == IF call.op = "read_SOC" THEN result ELSE SOC_decode(call.n, rec_int)
                bms == IF call.op = "read_BMS" THEN result ELSE BMS_decode(call.n, rec_int)
            IN /\ (soc.kind = "array") = (bms.kind = "array")
               /\ soc.kind = "array"
                    => /\ Len(soc.rows) = Len(bms.rows)
                       /\ \A i \in DOMAIN soc.rows : soc.rows[i] = <<bms.rows[i][1]>>

\* read_SOC(7) has decoded a reply
C10_Witness ==
    /\ Returned /\ call.op = "read_SOC" /\ call.n = 7 /\ HasRead
    /\ result.kind = "array"
    /\ Len(result.rows) = 7
====
